---- MODULE Spec2Model ----
(***************************************************************************)
(* A model of jean's Claude CLI client (src/claude/client.go): the three   *)
(* generate operations and TestConnection, the subprocess call callAPI,    *)
(* the record scan parseClaudeOutput, the fence stripping, the debug log.  *)
(*                                                                         *)
(* A Go string is modelled as a sequence of one-character strings (ASCII   *)
(* text, so that a byte is a character and len() is Len).  The JSON text   *)
(* printed by the subprocess is modelled one level above its characters,   *)
(* as the value tree its syntax denotes (or as invalid text), and          *)
(* json.Unmarshal as the decoding of that tree into []ClaudeMessage.  The  *)
(* content strings taken from the tree are character sequences, and the    *)
(* PR extractor decodes its JSON object from the characters.               *)
(***************************************************************************)
EXTENDS Integers, Sequences, FiniteSets, TLC

\* ------------------------------------------------------------------------
\* Package strings, as far as client.go uses it
\* ------------------------------------------------------------------------

Lowers == << "a", "b", "c", "d", "e", "f", "g", "h", "i", "j", "k", "l", "m",
             "n", "o", "p", "q", "r", "s", "t", "u", "v", "w", "x", "y", "z" >>

Uppers == << "A", "B", "C", "D", "E", "F", "G", "H", "I", "J", "K", "L", "M",
             "N", "O", "P", "Q", "R", "S", "T", "U", "V", "W", "X", "Y", "Z" >>

Digits == << "0", "1", "2", "3", "4", "5", "6", "7", "8", "9" >>

Range(s) == { s[i] : i \in 1..Len(s) }

SetMin(S) == CHOOSE x \in S : \A y \in S : x <= y

SetMax(S) == CHOOSE x \in S : \A y \in S : y <= x

minInt(a, b) == IF a < b THEN a ELSE b

\* unicode.IsSpace on ASCII
IsSpace(ch) == ch \in { " ", "\t", "\n", "\r", "\f" }

ToLowerChar(ch) ==
    IF ch \in Range(Uppers)
    THEN Lowers[CHOOSE i \in 1..Len(Uppers) : Uppers[i] = ch]
    ELSE ch

\* strings.ToLower
ToLower(s) == [i \in 1..Len(s) |-> ToLowerChar(s[i])]

\* strings.TrimFunc(s, drop): the slice from the first to the last character
\* that is not dropped
TrimSet(s, cutset) ==
    LET keep == { i \in 1..Len(s) : s[i] \notin cutset }
    IN  IF keep = {} THEN << >> ELSE SubSeq(s, SetMin(keep), SetMax(keep))

\* strings.TrimSpace
TrimSpace(s) == TrimSet(s, { " ", "\t", "\n", "\r", "\f" })

\* strings.Trim(s, cutset), the cutset given as a sequence of characters
Trim(s, cutset) == TrimSet(s, Range(cutset))

\* strings.HasPrefix
HasPrefix(s, prefix) ==
    Len(s) >= Len(prefix) /\ SubSeq(s, 1, Len(prefix)) = prefix

\* strings.HasSuffix
HasSuffix(s, suffix) ==
    Len(s) >= Len(suffix) /\ SubSeq(s, Len(s) - Len(suffix) + 1, Len(s)) = suffix

\* strings.TrimPrefix
TrimPrefix(s, prefix) ==
    IF HasPrefix(s, prefix) THEN SubSeq(s, Len(prefix) + 1, Len(s)) ELSE s

\* strings.TrimSuffix
TrimSuffix(s, suffix) ==
    IF HasSuffix(s, suffix) THEN SubSeq(s, 1, Len(s) - Len(suffix)) ELSE s

\* The 1-based positions at or after from where substr occurs in s
Occurrences(s, substr, from) ==
    { i \in from..(Len(s) - Len(substr) + 1) :
        SubSeq(s, i, i + Len(substr) - 1) = substr }

\* strings.Index, 0-based, -1 when substr does not occur
Index(s, substr) ==
    LET occ == Occurrences(s, substr, 1)
    IN  IF occ = {} THEN -1 ELSE SetMin(occ) - 1

\* strings.ReplaceAll for a non-empty old: the leftmost occurrence at or after
\* from is replaced and the scan goes on behind it (occurrences that overlap
\* a replaced one are not seen)
RECURSIVE ReplaceFrom(_, _, _, _)
ReplaceFrom(s, old, new, from) ==
    LET occ == Occurrences(s, old, from)
    IN  IF occ = {}
        THEN SubSeq(s, from, Len(s))
        ELSE LET i == SetMin(occ)
             IN  SubSeq(s, from, i - 1) \o new \o ReplaceFrom(s, old, new, i + Len(old))

ReplaceAll(s, old, new) == ReplaceFrom(s, old, new, 1)

\* s[:n] for n <= len(s)
Slice(s, n) == SubSeq(s, 1, n)

\* n copies of the character ch
Repeat(ch, n) == [i \in 1..n |-> ch]


\* ------------------------------------------------------------------------
\* Errors: the kind is the message fmt.Errorf builds, with what it carries
\* ------------------------------------------------------------------------

ProcessError == "claude CLI failed"

ParseError == "failed to parse Claude CLI output"

NotFoundError == "no content found in %d messages"

NoContentError == "no content in Claude CLI response"

EmptyResult == "AI generated empty commit subject"

InvalidName == "AI generated invalid branch name"

PRParseError == "failed to parse AI response"

EmptyTitle == "AI generated empty PR title"

\* the nil error
NoError == [kind |-> "nil", cause |-> "nil", text |-> << >>, count |-> 0]

\* Mutant of Errorf: the text behind the wrapped error is left out
ErrorfNoText(kind, cause, text, count) ==
    [kind |-> kind, cause |-> cause, text |-> << >>, count |-> count]

\* fmt.Errorf(kind): cause is the wrapped error (%w), text the stderr text
\* (%s), count the record count (%d)
Errorf(kind, cause, text, count) ==
    [kind |-> kind, cause |-> cause, text |-> text, count |-> count]

\* ------------------------------------------------------------------------
\* The subprocess's standard output and encoding/json
\* ------------------------------------------------------------------------

\* A field of a JSON object that a Go string field decodes: absent, null,
\* a string s, or a value of another type
Absent == [p |-> "absent", s |-> << >>]

Str(s) == [p |-> "string", s |-> s]

Null == [p |-> "null", s |-> << >>]

Num == [p |-> "number", s |-> << >>]

\* The values of "type" the client compares with
TypeResult == << "r", "e", "s", "u", "l", "t" >>

TypeAssistant == << "a", "s", "s", "i", "s", "t", "a", "n", "t" >>

TypeText == << "t", "e", "x", "t" >>

\* A content block {"type": t, "text": x}
Block(t, x) == [type |-> t, text |-> x]

\* message.content: absent, or an array of blocks, or a value of another type
NoContent == [p |-> "absent", blocks |-> << >>]

Blocks(bs) == [p |-> "array", blocks |-> bs]

\* An element of the top-level array: an object with the fields of
\* ClaudeMessage that the client reads, the literal null, or another value
Obj(type, subtype, result, content) ==
    [j |-> "object", type |-> type, subtype |-> subtype, result |-> result,
     content |-> content]

NullElem == [j |-> "null", type |-> Absent, subtype |-> Absent, result |-> Absent,
             content |-> NoContent]

ScalarElem == [j |-> "scalar", type |-> Absent, subtype |-> Absent, result |-> Absent,
               content |-> NoContent]

\* The text on standard output: lead and trail are the white space around the
\* document (white space only), json is what the text between them denotes:
\* "invalid" (no JSON text), "null", "scalar" (a number, string or boolean),
\* "object" or "array"
Stdout(lead, j, elems, trail) ==
    [lead |-> lead, json |-> j, elems |-> elems, trail |-> trail]

\* strings.TrimSpace on the output text
TrimSpaceOutput(output) ==
    [output EXCEPT !.lead = TrimSpace(output.lead), !.trail = TrimSpace(output.trail)]

\* The zero value of ClaudeMessage
ZeroMessage == [Type |-> << >>, Subtype |-> << >>, Result |-> << >>, Content |-> << >>]

\* A Go string field after decoding field f over the value old: null and an
\* absent key leave the field as it was
DecodeString(f, old) == IF f.p = "string" THEN f.s ELSE old

\* json.Unmarshal of one array element into a ClaudeMessage
DecodeMessage(e) ==
    IF e.j # "object"
    THEN ZeroMessage
    ELSE [Type    |-> DecodeString(e.type, << >>),
          Subtype |-> DecodeString(e.subtype, << >>),
          Result  |-> DecodeString(e.result, << >>),
          Content |-> IF e.content.p = "array" THEN e.content.blocks ELSE << >>]

\* Whether decoding element e reports an UnmarshalTypeError
TypeMismatch(e) ==
    \/ e.j = "scalar"
    \/ /\ e.j = "object"
       /\ \/ e.type.p = "number"
          \/ e.subtype.p = "number"
          \/ e.result.p = "number"
          \/ e.content.p = "number"

\* json.Unmarshal([]byte(output), &messages) with messages a nil
\* []ClaudeMessage: a syntax error for text that is no JSON, a type error for
\* a top-level value that is neither an array nor null and for an element or
\* field of the wrong type; null leaves the slice nil without an error
Unmarshal(output) ==
    CASE output.json = "invalid" -> [err |-> TRUE, messages |-> << >>]
      [] output.json = "null"    -> [err |-> FALSE, messages |-> << >>]
      [] output.json = "array"   ->
            [err      |-> \E i \in 1..Len(output.elems) : TypeMismatch(output.elems[i]),
             messages |-> [i \in 1..Len(output.elems) |-> DecodeMessage(output.elems[i])]]
      [] OTHER                   -> [err |-> TRUE, messages |-> << >>]

\* ------------------------------------------------------------------------
\* The debug log
\* ------------------------------------------------------------------------

NoOutput == Stdout(<< >>, "invalid", << >>, << >>)

\* One debugLog call: the format and its arguments (n the %d arguments, a
\* the type and subtype, s a string argument, out the output text, e the
\* error of "ERROR: %v")
Line(format, n, a, s, out, e) ==
    [format |-> format, n |-> n, a |-> a, s |-> s, out |-> out, e |-> e]

Msg(format) == Line(format, << >>, << >>, << >>, NoOutput, "nil")

MsgS(format, s) == Line(format, << >>, << >>, s, NoOutput, "nil")

\* ------------------------------------------------------------------------
\* parseClaudeOutput
\* ------------------------------------------------------------------------

\* The inner loop over msg.Message.Content from block k on: the text of the
\* first block of type "text" with a non-empty text, << >> when there is none
RECURSIVE FirstText(_, _)
FirstText(blocks, k) ==
    IF k > Len(blocks)
    THEN << >>
    ELSE IF blocks[k].type = TypeText /\ blocks[k].text # << >>
         THEN blocks[k].text
         ELSE FirstText(blocks, k + 1)

\* What a message qualifies with, << >> when it does not qualify
MessageContent(msg) ==
    IF msg.Type = TypeResult /\ msg.Result # << >>
    THEN msg.Result
    ELSE IF msg.Type = TypeAssistant THEN FirstText(msg.Content, 1) ELSE << >>

\* Mutant of ScanMessages: a qualifying result record wins over an assistant
\* record before it (priority by type over the whole array)
ScanMessagesByType(messages, i, lines) ==
    LET any     == { k \in i..Len(messages) : MessageContent(messages[k]) # << >> }
        results == { k \in any : messages[k].Type = TypeResult }
    IN  IF any = {}
        THEN [content |-> << >>,
              err     |-> Errorf(NotFoundError, "nil", << >>, Len(messages)),
              lines   |-> lines]
        ELSE [content |-> MessageContent(messages[IF results # {} THEN SetMin(results)
                                                   ELSE SetMin(any)]),
              err     |-> NoError,
              lines   |-> lines]

\* Mutant of ScanMessages: NotFoundError carries the index of the last
\* record, not the number of records
ScanMessagesLastIndex(messages, i, lines) ==
    LET any == { k \in i..Len(messages) : MessageContent(messages[k]) # << >> }
    IN  IF any = {}
        THEN [content |-> << >>,
              err     |-> Errorf(NotFoundError, "nil", << >>, Len(messages) - 1),
              lines   |-> lines]
        ELSE [content |-> MessageContent(messages[SetMin(any)]),
              err     |-> NoError,
              lines   |-> lines]

\* The loop over messages from index i on (1-based here, i - 1 in the log),
\* with the debug lines it writes
RECURSIVE ScanMessages(_, _, _)
ScanMessages(messages, i, lines) ==
    IF i > Len(messages)
    THEN [content |-> << >>,
          err     |-> Errorf(NotFoundError, "nil", << >>, Len(messages)),
          lines   |-> lines]
    ELSE LET msg  == messages[i]
             seen == Append(lines, Line("Message %d: type=%s, subtype=%s",
                                        << i - 1 >>, << msg.Type, msg.Subtype >>,
                                        << >>, NoOutput, "nil"))
         IN  IF msg.Type = TypeResult /\ msg.Result # << >>
             THEN [content |-> msg.Result,
                   err     |-> NoError,
                   lines   |-> Append(seen, Line("Message %d: found result: %s",
                                  << i - 1 >>, << >>,
                                  Slice(msg.Result, minInt(100, Len(msg.Result))),
                                  NoOutput, "nil"))]
             ELSE IF /\ msg.Type = TypeAssistant
                     /\ Len(msg.Content) > 0
                     /\ FirstText(msg.Content, 1) # << >>
                  THEN LET text == FirstText(msg.Content, 1)
                       IN  [content |-> text,
                            err     |-> NoError,
                            lines   |-> Append(seen,
                                   Line("Message %d: found assistant text: %s",
                                        << i - 1 >>, << >>,
                                        Slice(text, minInt(100, Len(text))),
                                        NoOutput, "nil"))]
                  ELSE ScanMessages(messages, i + 1, seen)

parseClaudeOutput(output) ==
    LET dec == Unmarshal(TrimSpaceOutput(output))
    IN  IF dec.err
        THEN [content |-> << >>,
              err     |-> Errorf(ParseError, "json", << >>, 0),
              lines   |-> << Msg("Failed to parse JSON array: %v") >>]
        ELSE ScanMessages(dec.messages, 1,
                 << Line("Parsed %d messages from JSON array",
                         << Len(dec.messages) >>, << >>, << >>, NoOutput, "nil") >>)


\* ------------------------------------------------------------------------
\* callAPI
\* ------------------------------------------------------------------------

\* The backquote character U+0060, which a TLA+ string cannot hold
Backquote == "U+0060"

Fence == << Backquote, Backquote, Backquote >>

FenceJSON == Fence \o << "j", "s", "o", "n" >>

\* Mutant of Defence: the content is not trimmed again behind the fences
DefenceNoRetrim(extracted) ==
    LET content == TrimSpace(extracted)
    IN  IF HasPrefix(content, Fence)
        THEN LET idx    == Index(content, << "\n" >>)
                 opened == IF idx # -1
                           THEN SubSeq(content, idx + 2, Len(content))
                           ELSE TrimPrefix(TrimPrefix(content, FenceJSON), Fence)
             IN  IF HasSuffix(opened, Fence) THEN TrimSuffix(opened, Fence) ELSE opened
        ELSE content

\* callAPI's clean-up of markdown code blocks
Defence(extracted) ==
    LET content == TrimSpace(extracted)
    IN  IF HasPrefix(content, Fence)
        THEN LET idx    == Index(content, << "\n" >>)
                 opened == IF idx # -1
                           THEN SubSeq(content, idx + 2, Len(content))
                           ELSE TrimPrefix(TrimPrefix(content, FenceJSON), Fence)
                 closed == IF HasSuffix(opened, Fence)
                           THEN TrimSuffix(opened, Fence)
                           ELSE opened
             IN  TrimSpace(closed)
        ELSE content

\* callAPI up to cmd.Run(): the debug lines of the request
PromptLogMax == 500

\* Mutant of callAPIRequest: the whole prompt is logged
callAPIRequestWholePrompt(p) ==
    << Msg("=== CLAUDE CLI REQUEST ==="), MsgS("Prompt: %s", p) >>

callAPIRequest(p) ==
    << Msg("=== CLAUDE CLI REQUEST ==="),
       MsgS("Prompt: %s", Slice(p, minInt(PromptLogMax, Len(p)))) >>

\* callAPI from the return of cmd.Run() on: run is what the subprocess left
\* (err the error of cmd.Run, "nil" for exit status 0).  parsed is
\* parseClaudeOutput's return, when it was called
NotParsed == [called |-> FALSE, content |-> << >>, err |-> NoError]

callAPIResponse(run) ==
    IF run.err # "nil"
    THEN [content |-> << >>,
          err     |-> Errorf(ProcessError, run.err, run.stderr, 0),
          parsed  |-> NotParsed,
          lines   |-> << Line("ERROR: %v", << >>, << >>, << >>, NoOutput, run.err),
                         MsgS("STDERR: %s", run.stderr) >>]
    ELSE LET p   == parseClaudeOutput(run.stdout)
             raw == << Msg("=== CLAUDE CLI RAW RESPONSE ==="),
                       Line("STDOUT: %s", << >>, << >>, << >>, run.stdout, "nil"),
                       MsgS("STDERR: %s", run.stderr) >> \o p.lines
             got == [called |-> TRUE, content |-> p.content, err |-> p.err]
         IN  IF p.err # NoError
             THEN [content |-> << >>, err |-> p.err, parsed |-> got, lines |-> raw]
             ELSE LET all == raw \o << Msg("=== EXTRACTED CONTENT ==="),
                                       MsgS("Content: %s", p.content) >>
                  IN  IF p.content = << >>
                      THEN [content |-> << >>,
                            err     |-> Errorf(NoContentError, "nil", << >>, 0),
                            parsed  |-> got,
                            lines   |-> all]
                      ELSE [content |-> Defence(p.content),
                            err     |-> NoError,
                            parsed  |-> got,
                            lines   |-> all]

\* ------------------------------------------------------------------------
\* json.Unmarshal([]byte(response), &content) with content a PRContent,
\* from the characters.  Covered: white space, null, and an object whose
\* keys are strings and whose values are strings, null, true, false or
\* digits, the strings without escape sequences.
\* ------------------------------------------------------------------------

JSONSpace == { " ", "\t", "\n", "\r" }

Quote == "\""

TitleKey == << "t", "i", "t", "l", "e" >>

DescriptionKey == << "d", "e", "s", "c", "r", "i", "p", "t", "i", "o", "n" >>

\* The first position at or after i that holds no JSON white space
SkipSpace(s, i) ==
    LET rest == { j \in i..Len(s) : s[j] \notin JSONSpace }
    IN  IF rest = {} THEN Len(s) + 1 ELSE SetMin(rest)

\* A string literal at position i: its value and the position behind it
ScanString(s, i) ==
    LET close == { j \in (i + 1)..Len(s) : s[j] = Quote }
    IN  IF i > Len(s) \/ s[i] # Quote \/ close = {}
        THEN [ok |-> FALSE, val |-> << >>, next |-> i]
        ELSE LET j   == SetMin(close)
                 val == SubSeq(s, i + 1, j - 1)
             IN  [ok   |-> \A k \in 1..Len(val) :
                              val[k] \notin { "\t", "\n", "\r", "\f", "\\" },
                  val  |-> val,
                  next |-> j + 1]

\* A literal word (null, true, false) at position i
ScanWord(s, i, word) ==
    i + Len(word) - 1 <= Len(s) /\ SubSeq(s, i, i + Len(word) - 1) = word

\* A member's value at position i: its kind, its value and the position
\* behind it
ScanValue(s, i) ==
    IF i > Len(s)
    THEN [ok |-> FALSE, kind |-> "none", val |-> << >>, next |-> i]
    ELSE IF s[i] = Quote
    THEN LET str == ScanString(s, i)
         IN  [ok |-> str.ok, kind |-> "string", val |-> str.val, next |-> str.next]
    ELSE IF ScanWord(s, i, << "n", "u", "l", "l" >>)
    THEN [ok |-> TRUE, kind |-> "null", val |-> << >>, next |-> i + 4]
    ELSE IF ScanWord(s, i, << "t", "r", "u", "e" >>)
    THEN [ok |-> TRUE, kind |-> "other", val |-> << >>, next |-> i + 4]
    ELSE IF ScanWord(s, i, << "f", "a", "l", "s", "e" >>)
    THEN [ok |-> TRUE, kind |-> "other", val |-> << >>, next |-> i + 5]
    ELSE IF s[i] \in Range(Digits)
    THEN LET stop == { j \in i..Len(s) : s[j] \notin Range(Digits) }
             next == IF stop = {} THEN Len(s) + 1 ELSE SetMin(stop)
         IN  [ok   |-> s[i] # "0" \/ next = i + 1,
              kind |-> "other", val |-> << >>, next |-> next]
    ELSE [ok |-> FALSE, kind |-> "none", val |-> << >>, next |-> i]

\* The struct after the member key: v.  A key names a field when it equals
\* the field's tag under case folding; a string sets the field, null leaves
\* it, another value is an UnmarshalTypeError
SetField(pr, key, v) ==
    LET field == ToLower(key)
    IN  IF field \notin { TitleKey, DescriptionKey } \/ v.kind = "null"
        THEN pr
        ELSE IF v.kind # "string"
        THEN [pr EXCEPT !.mismatch = TRUE]
        ELSE IF field = TitleKey
        THEN [pr EXCEPT !.Title = v.val]
        ELSE [pr EXCEPT !.Description = v.val]

\* The members of an object from the key at position i on
RECURSIVE ScanMembers(_, _, _)
ScanMembers(s, i, pr) ==
    LET key   == ScanString(s, i)
        colon == SkipSpace(s, key.next)
        v     == ScanValue(s, SkipSpace(s, colon + 1))
        sep   == SkipSpace(s, v.next)
        bad   == [ok |-> FALSE, next |-> i, pr |-> pr]
    IN  IF ~key.ok THEN bad
        ELSE IF colon > Len(s) \/ s[colon] # ":" THEN bad
        ELSE IF ~v.ok \/ sep > Len(s) THEN bad
        ELSE IF s[sep] = ","
        THEN ScanMembers(s, SkipSpace(s, sep + 1), SetField(pr, key.val, v))
        ELSE IF s[sep] = "}"
        THEN [ok |-> TRUE, next |-> sep + 1, pr |-> SetField(pr, key.val, v)]
        ELSE bad

\* The zero value of PRContent
ZeroPRContent == [Title |-> << >>, Description |-> << >>, mismatch |-> FALSE]

UnmarshalPRContent(response) ==
    LET start == SkipSpace(response, 1)
        bad   == [err |-> TRUE, Title |-> << >>, Description |-> << >>]
    IN  IF start > Len(response) THEN bad
        ELSE IF ScanWord(response, start, << "n", "u", "l", "l" >>)
        THEN [err   |-> SkipSpace(response, start + 4) <= Len(response),
              Title |-> << >>, Description |-> << >>]
        ELSE IF response[start] # "{" THEN bad
        ELSE LET first == SkipSpace(response, start + 1)
                 obj   == IF first <= Len(response) /\ response[first] = "}"
                          THEN [ok |-> TRUE, next |-> first + 1, pr |-> ZeroPRContent]
                          ELSE ScanMembers(response, first, ZeroPRContent)
             IN  IF ~obj.ok \/ SkipSpace(response, obj.next) <= Len(response)
                 THEN bad
                 ELSE [err         |-> obj.pr.mismatch,
                       Title       |-> obj.pr.Title,
                       Description |-> obj.pr.Description]


\* ------------------------------------------------------------------------
\* The prompts
\* ------------------------------------------------------------------------

TokenStatus == << "{", "s", "t", "a", "t", "u", "s", "}" >>

TokenDiff == << "{", "d", "i", "f", "f", "}" >>

TokenBranch == << "{", "b", "r", "a", "n", "c", "h", "}" >>

TokenLog == << "{", "l", "o", "g", "}" >>

\* The built-in templates: the commit template holds the four tokens, the
\* branch-name and PR templates hold {diff} only
DefaultCommitPrompt ==
    << "S", ":" >> \o TokenStatus \o << " ", "D", ":" >> \o TokenDiff
        \o << " ", "B", ":" >> \o TokenBranch \o << " ", "L", ":" >> \o TokenLog

DefaultBranchNamePrompt == << "N", ":" >> \o TokenDiff

DefaultPRPrompt == << "P", ":" >> \o TokenDiff

TestPrompt ==
    << "S", "a", "y", " ", "'", "t", "e", "s", "t", "'", " ", "a", "n", "d", " ",
       "n", "o", "t", "h", "i", "n", "g", " ", "e", "l", "s", "e", "." >>

CommitDiffMax == 5000

BranchDiffMax == 3000

PRDiffMax == 5000

\* if len(diff) > max { diff = diff[:max] }
CutDiff(d, max) == IF Len(d) > max THEN Slice(d, max) ELSE d

\* Mutant of ChoosePrompt: a custom prompt is put in front of the default
ChoosePromptBoth(customPrompt, default) == customPrompt \o default

\* prompt := customPrompt; if prompt == "" { prompt = default }
ChoosePrompt(customPrompt, default) ==
    IF customPrompt = << >> THEN default ELSE customPrompt

\* GenerateCommitMessage's prompt: the four ReplaceAll calls in their order,
\* each on the result of the one before
CommitPrompt(status, d, branch, log, customPrompt) ==
    LET p0 == ChoosePrompt(customPrompt, DefaultCommitPrompt)
        p1 == ReplaceAll(p0, TokenStatus, status)
        p2 == ReplaceAll(p1, TokenDiff, d)
        p3 == ReplaceAll(p2, TokenBranch, branch)
    IN  ReplaceAll(p3, TokenLog, log)

\* GenerateBranchName's prompt
BranchNamePrompt(d, customPrompt) ==
    ReplaceAll(ChoosePrompt(customPrompt, DefaultBranchNamePrompt), TokenDiff, d)

\* GeneratePRContent's prompt
PRPrompt(d, customPrompt) ==
    ReplaceAll(ChoosePrompt(customPrompt, DefaultPRPrompt), TokenDiff, d)

\* ------------------------------------------------------------------------
\* What the operations return from callAPI's return
\* ------------------------------------------------------------------------

\* A return: value is the subject, the branch name or the title
Ret(value, description, err) ==
    [value |-> value, description |-> description, err |-> err]

\* Mutant of ExtractCommitMessage: the check for an empty subject is missing
ExtractCommitMessageUnchecked(api) ==
    IF api.err # NoError
    THEN Ret(<< >>, << >>, api.err)
    ELSE Ret(TrimSpace(api.content), << >>, NoError)

\* Mutant of ExtractCommitMessage: the subject is the response's first line
ExtractCommitMessageFirstLine(api) ==
    IF api.err # NoError
    THEN Ret(<< >>, << >>, api.err)
    ELSE LET idx     == Index(api.content, << "\n" >>)
             subject == TrimSpace(IF idx = -1 THEN api.content
                                  ELSE SubSeq(api.content, 1, idx))
         IN  IF subject = << >>
             THEN Ret(<< >>, << >>, Errorf(EmptyResult, "nil", << >>, 0))
             ELSE Ret(subject, << >>, NoError)

\* GenerateCommitMessage after callAPI
ExtractCommitMessage(api) ==
    IF api.err # NoError
    THEN Ret(<< >>, << >>, api.err)
    ELSE LET subject == TrimSpace(api.content)
         IN  IF subject = << >>
             THEN Ret(<< >>, << >>, Errorf(EmptyResult, "nil", << >>, 0))
             ELSE Ret(subject, << >>, NoError)

BranchNameMax == 40

\* Mutant of KeepRune: every character but white space is kept
KeepRuneLoose(r) == ~IsSpace(r)

\* The character filter: letters a-z, digits and the hyphen are kept
KeepRune(r) == r \in Range(Lowers) \/ r \in Range(Digits) \/ r = "-"

\* response lowercased, spaces and underscores made hyphens, filtered
Filtered(response, underscores) ==
    LET n1 == TrimSpace(response)
        n2 == ToLower(n1)
        n3 == ReplaceAll(n2, << " " >>, << "-" >>)
        n4 == IF underscores THEN ReplaceAll(n3, << "_" >>, << "-" >>) ELSE n3
    IN  SelectSeq(n4, KeepRune)

\* Mutant of CleanBranchName: only the trailing hyphens are trimmed
CleanBranchNameTrimRight(response) ==
    LET n5   == Filtered(response, TRUE)
        keep == { i \in 1..Len(n5) : n5[i] # "-" }
        n6   == IF keep = {} THEN << >> ELSE SubSeq(n5, 1, SetMax(keep))
    IN  IF Len(n6) > BranchNameMax THEN Slice(n6, BranchNameMax) ELSE n6

\* Mutant of CleanBranchName: the hyphens are trimmed after the cut
CleanBranchNameTrimLast(response) ==
    LET n5 == Filtered(response, TRUE)
        n6 == IF Len(n5) > BranchNameMax THEN Slice(n5, BranchNameMax) ELSE n5
    IN  Trim(n6, << "-" >>)

\* Mutant of CleanBranchName: underscores are not replaced
CleanBranchNameNoUnderscore(response) ==
    LET n6 == Trim(Filtered(response, FALSE), << "-" >>)
    IN  IF Len(n6) > BranchNameMax THEN Slice(n6, BranchNameMax) ELSE n6

\* GenerateBranchName's clean-up of the response
CleanBranchName(response) ==
    LET n1 == TrimSpace(response)
        n2 == ToLower(n1)
        n3 == ReplaceAll(n2, << " " >>, << "-" >>)
        n4 == ReplaceAll(n3, << "_" >>, << "-" >>)
        n5 == SelectSeq(n4, KeepRune)
        n6 == Trim(n5, << "-" >>)
    IN  IF Len(n6) > BranchNameMax THEN Slice(n6, BranchNameMax) ELSE n6

\* GenerateBranchName after callAPI
ExtractBranchName(api) ==
    IF api.err # NoError
    THEN Ret(<< >>, << >>, api.err)
    ELSE LET name == CleanBranchName(api.content)
         IN  IF name = << >>
             THEN Ret(<< >>, << >>, Errorf(InvalidName, "nil", << >>, 0))
             ELSE Ret(name, << >>, NoError)

\* Mutant of ExtractPRContent: an empty description fails as an empty title
\* does
ExtractPRContentNeedsDescription(api) ==
    IF api.err # NoError
    THEN Ret(<< >>, << >>, api.err)
    ELSE LET content == UnmarshalPRContent(api.content)
         IN  IF content.err
             THEN Ret(<< >>, << >>, Errorf(PRParseError, "json", << >>, 0))
             ELSE IF TrimSpace(content.Title) = << >> \/ TrimSpace(content.Description) = << >>
             THEN Ret(<< >>, << >>, Errorf(EmptyTitle, "nil", << >>, 0))
             ELSE Ret(TrimSpace(content.Title), TrimSpace(content.Description), NoError)

\* GeneratePRContent after callAPI
ExtractPRContent(api) ==
    IF api.err # NoError
    THEN Ret(<< >>, << >>, api.err)
    ELSE LET content == UnmarshalPRContent(api.content)
             title   == TrimSpace(content.Title)
         IN  IF content.err
             THEN Ret(<< >>, << >>, Errorf(PRParseError, "json", << >>, 0))
             ELSE IF title = << >>
             THEN Ret(<< >>, << >>, Errorf(EmptyTitle, "nil", << >>, 0))
             ELSE Ret(title, TrimSpace(content.Description), NoError)

\* TestConnection after callAPI
ExtractTestConnection(api) == Ret(<< >>, << >>, api.err)


\* ------------------------------------------------------------------------
\* The state
\* ------------------------------------------------------------------------

Callers == { "c1", "c2" }

VARIABLES
    pc,         \* where each caller is: "idle", "request" (in callAPI, before
                \* cmd.Run), "running" (in cmd.Run), "response" (in callAPI,
                \* after cmd.Run), "returned"
    op,         \* the operation each caller called
    args,       \* its arguments
    diff,       \* the local diff after the cut
    prompt,     \* the prompt handed to callAPI
    pend,       \* the debugLog calls the caller has yet to make before its
                \* next step
    spawned,    \* how many subprocesses the caller has started
    run,        \* what cmd.Run left: stdout, stderr and its error
    parsed,     \* parseClaudeOutput's return
    api,        \* callAPI's return
    ret,        \* the operation's return
    DebugMode,  \* the package's debug flag
    logFile,    \* the lines of /tmp/jean-claude-debug.log
    called,     \* the function of the packages session and config called last
    argv,       \* its receiver and arguments
    result      \* its return

\* The state of the package claude, and the calls of the other packages
client == << pc, op, args, diff, prompt, pend, spawned, run, parsed, api, ret,
            DebugMode, logFile >>

session == << called, argv, result >>

vars == << client, session >>

NoArgs == [status |-> << >>, diff |-> << >>, branch |-> << >>, log |-> << >>,
           customPrompt |-> << >>]

NoRun == [stdout |-> NoOutput, stderr |-> << >>, err |-> "nil"]

NoCall == [content |-> << >>, err |-> NoError]

InitCalls ==
    /\ pc = [c \in Callers |-> "idle"]
    /\ op = [c \in Callers |-> "none"]
    /\ args = [c \in Callers |-> NoArgs]
    /\ diff = [c \in Callers |-> << >>]
    /\ prompt = [c \in Callers |-> << >>]
    /\ pend = [c \in Callers |-> << >>]
    /\ spawned = [c \in Callers |-> 0]
    /\ run = [c \in Callers |-> NoRun]
    /\ parsed = [c \in Callers |-> NotParsed]
    /\ api = [c \in Callers |-> NoCall]
    /\ ret = [c \in Callers |-> Ret(<< >>, << >>, NoError)]
    /\ logFile = << >>

\* No function of the packages session and config has been called
NoArgv == [receiver |-> "none", repoName |-> << >>, branch |-> << >>, Scripts |-> {}]

InitSession ==
    /\ called = "none"
    /\ argv = NoArgv
    /\ result = << >>

\* ------------------------------------------------------------------------
\* The operations
\* ------------------------------------------------------------------------

\* The entry into callAPI(p) from operation o
EnterCallAPI(c, o, a, d, p) ==
    /\ pc' = [pc EXCEPT ![c] = "request"]
    /\ op' = [op EXCEPT ![c] = o]
    /\ args' = [args EXCEPT ![c] = a]
    /\ diff' = [diff EXCEPT ![c] = d]
    /\ prompt' = [prompt EXCEPT ![c] = p]
    /\ pend' = [pend EXCEPT ![c] = callAPIRequest(p)]
    /\ UNCHANGED session
    /\ UNCHANGED << spawned, run, parsed, api, ret, DebugMode, logFile >>

GenerateCommitMessage(c, status, d, branch, log, customPrompt) ==
    LET cut == CutDiff(d, CommitDiffMax)
    IN  /\ pc[c] = "idle"
        /\ EnterCallAPI(c, "GenerateCommitMessage",
            [status |-> status, diff |-> d, branch |-> branch, log |-> log,
             customPrompt |-> customPrompt],
            cut, CommitPrompt(status, cut, branch, log, customPrompt))

GenerateBranchName(c, d, customPrompt) ==
    LET cut == CutDiff(d, BranchDiffMax)
    IN  /\ pc[c] = "idle"
        /\ EnterCallAPI(c, "GenerateBranchName",
            [NoArgs EXCEPT !.diff = d, !.customPrompt = customPrompt],
            cut, BranchNamePrompt(cut, customPrompt))

GeneratePRContent(c, d, customPrompt) ==
    LET cut == CutDiff(d, PRDiffMax)
    IN  /\ pc[c] = "idle"
        /\ EnterCallAPI(c, "GeneratePRContent",
            [NoArgs EXCEPT !.diff = d, !.customPrompt = customPrompt],
            cut, PRPrompt(cut, customPrompt))

TestConnection(c) ==
    /\ pc[c] = "idle"
    /\ EnterCallAPI(c, "TestConnection", NoArgs, << >>, TestPrompt)

\* Mutant of debugLog: the file is opened with O_TRUNC, not O_APPEND
debugLogTruncate(c, opens) ==
    /\ pend[c] # << >>
    /\ pend' = [pend EXCEPT ![c] = Tail(pend[c])]
    /\ logFile' = IF DebugMode /\ opens THEN << Head(pend[c]) >> ELSE logFile
    /\ UNCHANGED session
    /\ UNCHANGED << pc, op, args, diff, prompt, spawned, run, parsed, api, ret,
                    DebugMode >>

\* Mutant of debugLog: a file that does not open fails the call
debugLogFatal(c, opens) ==
    /\ pend[c] # << >>
    /\ pend' = [pend EXCEPT ![c] = Tail(pend[c])]
    /\ logFile' = IF DebugMode /\ opens THEN Append(logFile, Head(pend[c])) ELSE logFile
    /\ api' = [api EXCEPT ![c] = IF DebugMode /\ ~opens
                                  THEN [content |-> << >>,
                                        err |-> Errorf(ProcessError, "open", << >>, 0)]
                                  ELSE @]
    /\ UNCHANGED session
    /\ UNCHANGED << pc, op, args, diff, prompt, spawned, run, parsed, ret, DebugMode >>

\* One debugLog call of caller c: the line is appended when the flag is set
\* and the file opens (opens), and dropped otherwise
debugLog(c, opens) ==
    /\ pend[c] # << >>
    /\ pend' = [pend EXCEPT ![c] = Tail(pend[c])]
    /\ logFile' = IF DebugMode /\ opens THEN Append(logFile, Head(pend[c])) ELSE logFile
    /\ UNCHANGED session
    /\ UNCHANGED << pc, op, args, diff, prompt, spawned, run, parsed, api, ret,
                    DebugMode >>

\* An assignment to the exported variable DebugMode, by any code of the
\* program
SetDebugMode(v) ==
    /\ DebugMode # v
    /\ DebugMode' = v
    /\ UNCHANGED session
    /\ UNCHANGED << pc, op, args, diff, prompt, pend, spawned, run, parsed, api, ret,
                    logFile >>

\* Mutant of Run: the subprocess is started and not waited for (cmd.Start)
RunDetached(c) ==
    /\ pc[c] = "request"
    /\ pend[c] = << >>
    /\ pc' = [pc EXCEPT ![c] = "response"]
    /\ spawned' = [spawned EXCEPT ![c] = spawned[c] + 1]
    /\ UNCHANGED session
    /\ UNCHANGED << op, args, diff, prompt, pend, run, parsed, api, ret,
                    DebugMode, logFile >>

\* cmd.Run() starts the subprocess and waits for it
Run(c) ==
    /\ pc[c] = "request"
    /\ pend[c] = << >>
    /\ pc' = [pc EXCEPT ![c] = "running"]
    /\ spawned' = [spawned EXCEPT ![c] = spawned[c] + 1]
    /\ UNCHANGED session
    /\ UNCHANGED << op, args, diff, prompt, pend, run, parsed, api, ret,
                    DebugMode, logFile >>

\* The subprocess ends (or could not be started): cmd.Run() returns err with
\* out and errText in the buffers, and callAPI goes on to its return
Exit(c, out, errText, err) ==
    LET r   == [stdout |-> out, stderr |-> errText, err |-> err]
        res == callAPIResponse(r)
    IN  /\ pc[c] = "running"
        /\ pc' = [pc EXCEPT ![c] = "response"]
        /\ run' = [run EXCEPT ![c] = r]
        /\ parsed' = [parsed EXCEPT ![c] = res.parsed]
        /\ api' = [api EXCEPT ![c] = [content |-> res.content, err |-> res.err]]
        /\ pend' = [pend EXCEPT ![c] = res.lines]
        /\ UNCHANGED session
        /\ UNCHANGED << op, args, diff, prompt, spawned, ret, DebugMode, logFile >>

\* What operation o returns from callAPI's return
Extract(o, a) ==
    CASE o = "GenerateCommitMessage" -> ExtractCommitMessage(a)
      [] o = "GenerateBranchName"    -> ExtractBranchName(a)
      [] o = "GeneratePRContent"     -> ExtractPRContent(a)
      [] OTHER                       -> ExtractTestConnection(a)

\* Mutant of Return: after an error callAPI is entered again
ReturnRetry(c) ==
    /\ pc[c] = "response"
    /\ pend[c] = << >>
    /\ pc' = [pc EXCEPT ![c] = IF api[c].err # NoError THEN "request" ELSE "returned"]
    /\ ret' = [ret EXCEPT ![c] = Extract(op[c], api[c])]
    /\ UNCHANGED session
    /\ UNCHANGED << op, args, diff, prompt, pend, spawned, run, parsed, api,
                    DebugMode, logFile >>

\* callAPI returns and the operation returns to its caller
Return(c) ==
    /\ pc[c] = "response"
    /\ pend[c] = << >>
    /\ pc' = [pc EXCEPT ![c] = "returned"]
    /\ ret' = [ret EXCEPT ![c] = Extract(op[c], api[c])]
    /\ UNCHANGED session
    /\ UNCHANGED << op, args, diff, prompt, pend, spawned, run, parsed, api,
                    DebugMode, logFile >>


\* ------------------------------------------------------------------------
\* The inputs the specifications draw from
\* ------------------------------------------------------------------------

MaxRecords == 2

MaxTail == 2

SeqsUpTo(S, n) == UNION { [1..k -> S] : k \in 0..n }

TypeSystem == << "s", "y", "s", "t", "e", "m" >>

TypeToolUse == << "t", "o", "o", "l", "_", "u", "s", "e" >>

Success == << "s", "u", "c", "c", "e", "s", "s" >>

\* The elements of the record arrays: result and assistant records that
\* qualify and that do not, records of another type, and elements that are
\* no records
Elems ==
    { Obj(Str(TypeResult), Str(Success), Str(<< "A" >>), NoContent),
      Obj(Str(TypeResult), Absent, Str(<< "B" >>), NoContent),
      Obj(Str(TypeResult), Absent, Str(<< >>), NoContent),
      Obj(Str(TypeResult), Absent, Null, Blocks(<< Block(TypeText, << "A" >>) >>)),
      Obj(Str(TypeAssistant), Absent, Absent, Blocks(<< Block(TypeText, << "A" >>) >>)),
      Obj(Str(TypeAssistant), Absent, Absent,
          Blocks(<< Block(TypeText, << >>), Block(TypeToolUse, << "A" >>),
                    Block(TypeText, << "B" >>), Block(TypeText, << "A" >>) >>)),
      Obj(Str(TypeAssistant), Absent, Str(<< "B" >>),
          Blocks(<< Block(TypeToolUse, << "A" >>) >>)),
      Obj(Str(TypeSystem), Num, Str(<< "A" >>),
          Blocks(<< Block(TypeText, << "A" >>) >>)),
      Obj(Str(TypeSystem), Absent, Str(<< "A" >>),
          Blocks(<< Block(TypeText, << "A" >>) >>)),
      NullElem,
      ScalarElem }

\* Output texts by their shape: text that is no JSON, JSON values that are no
\* arrays, and the arrays of up to MaxRecords elements
ShapeOutputs ==
    { Stdout(<< >>, "invalid", << >>, << >>),
      Stdout(<< >>, "invalid", << >>, << "\n" >>),
      Stdout(<< >>, "null", << >>, << "\n" >>),
      Stdout(<< " " >>, "scalar", << >>, << >>),
      Stdout(<< >>, "object", << >>, << "\n" >>) }
    \cup { Stdout(<< >>, "array", es, << "\n" >>) : es \in SeqsUpTo(Elems, MaxRecords) }

FeatCommit ==
    << "f", "e", "a", "t", ":", " ", "a", "d", "d", " ", "l", "o", "g", "i", "n",
       " ", "f", "l", "o", "w" >>

FixAuthBug ==
    << "F", "i", "x", " ", "A", "u", "t", "h", " ", "B", "u", "g", "!", "!" >>

FixAuthText == << "f", "i", "x", "_", "a", "u", "t", "h", " ", "b", "u", "g" >>

AddCaching == << "A", "d", "d", " ", "c", "a", "c", "h", "i", "n", "g" >>

Notes == << "n", "o", "t", "e", "s" >>

\* The JSON text {"title":"t","description":"d"}
PRDoc(t, d) ==
    << "{", Quote >> \o TitleKey \o << Quote, ":", Quote >> \o t
        \o << Quote, ",", Quote >> \o DescriptionKey \o << Quote, ":", Quote >> \o d
        \o << Quote, "}" >>

PRTitles == { << >>, << " " >>, AddCaching, << " ", "T", "\t" >>, << " ", "T", " " >> }

PRDescriptions == { << >>, << " " >>, Notes, << " ", "n", " ", "n", " " >> }

PRDocs == { PRDoc(t, d) : t \in PRTitles, d \in PRDescriptions }

\* Content strings: name-like strings around the branch name's length limit
\* (a head, a run of letters, a tail of up to MaxTail characters), the spec's
\* examples, blank and fenced strings, and JSON texts for the PR content
NameHeads == { << >>, << "-" >>, << "_" >>, << "B" >> }

NameChars == { "B", "7", "-", "_", " ", "!" }

NameRuns == { 0, BranchNameMax - 1, BranchNameMax }

NameContents ==
    { h \o Repeat("a", n) \o t :
        h \in NameHeads, n \in NameRuns, t \in SeqsUpTo(NameChars, MaxTail) }

OtherContents ==
    { FeatCommit, FixAuthBug, FixAuthText,
      << " " >>, << "\n", " " >>, << " ", "x", "\n", "y", "\n" >>,
      Fence \o << "\n" >> \o Fence,
      Fence, FenceJSON, Fence \o Fence,
      FenceJSON \o << "X" >> \o Fence,
      Fence \o << "\n", "a", "_", "b", "\n" >> \o Fence,
      << "x" >> \o Fence,
      << "n", "u", "l", "l" >>, << "{", "}" >>, << "[", "]" >>,
      << "{", Quote >> \o TitleKey \o << Quote, ":", "5", "}" >>,
      << "{", Quote, "T", "i", "t", "l", "e", Quote, ":", " ", Quote, "x", Quote, "}" >> }
    \cup PRDocs
    \cup { FenceJSON \o << "\n" >> \o d \o << "\n" >> \o Fence : d \in PRDocs }

Contents == NameContents \cup OtherContents

\* The output [{"type":"result","result":content}]
ResultOutput(content) ==
    Stdout(<< >>, "array",
           << Obj(Str(TypeResult), Str(Success), Str(content), NoContent) >>, << "\n" >>)

\* The output [{"type":"assistant","message":{"content":[{"type":"text","text":content}]}}]
AssistantOutput(content) ==
    Stdout(<< >>, "array",
           << Obj(Str(TypeAssistant), Absent, Absent,
                  Blocks(<< Block(TypeText, content) >>)) >>, << "\n" >>)

Outputs ==
    ShapeOutputs
    \cup { ResultOutput(content) : content \in Contents }
    \cup { AssistantOutput(FixAuthText) }

\* The errors cmd.Run returns: a non-zero exit status, a failed start
RunErrors == { "exit status 1", "exec: not found" }

\* ------------------------------------------------------------------------
\* The specification: one caller calls one of the four operations on a small
\* git context, and the subprocess ends in any of the ways above
\* ------------------------------------------------------------------------

Init ==
    /\ InitCalls
    /\ InitSession
    /\ DebugMode = TRUE

Subprocess(c) ==
    /\ pc[c] = "running"
    /\ \/ \E out \in Outputs : Exit(c, out, << >>, "nil")
       \/ \E err \in RunErrors, errText \in { << >>, << "e" >> } :
              \E out \in { Stdout(<< >>, "invalid", << >>, << >>), ResultOutput(<< "A" >>) } :
                  Exit(c, out, errText, err)

Call(c) ==
    \/ GenerateCommitMessage(c, << "M" >>, << "d" >>, << "b" >>, << "l" >>, << >>)
    \/ GenerateBranchName(c, << "d" >>, << >>)
    \/ GeneratePRContent(c, << "d" >>, << >>)
    \/ TestConnection(c)

Next ==
    \/ Call("c1")
    \/ debugLog("c1", TRUE)
    \/ Run("c1")
    \/ Subprocess("c1")
    \/ Return("c1")

Spec == Init /\ [][Next]_vars


\* ------------------------------------------------------------------------
\* The claims about parseClaudeOutput, stated over the output text's
\* elements, not over the decoded messages
\* ------------------------------------------------------------------------

\* The callers and the three generate operations
Returned(c) == pc[c] = "returned"

Generates == { "GenerateCommitMessage", "GenerateBranchName", "GeneratePRContent" }

\* The text blocks of element e that qualify
TextBlocks(e) ==
    { k \in 1..Len(e.content.blocks) :
        e.content.blocks[k].type = TypeText /\ e.content.blocks[k].text # << >> }

\* The content record e qualifies with, << >> when it does not qualify
Qualifying(e) ==
    IF e.j = "object" /\ e.type = Str(TypeResult) /\ e.result.p = "string"
       /\ e.result.s # << >>
    THEN e.result.s
    ELSE IF e.j = "object" /\ e.type = Str(TypeAssistant) /\ e.content.p = "array"
            /\ TextBlocks(e) # {}
    THEN e.content.blocks[SetMin(TextBlocks(e))].text
    ELSE << >>

\* A record as the client decodes it: an object (or null) whose fields, where
\* present, are strings and an array of blocks
IsRecord(e) ==
    /\ e.j \in { "object", "null" }
    /\ e.type.p # "number" /\ e.subtype.p # "number" /\ e.result.p # "number"
    /\ e.content.p # "number"

\* The output text is an array of records
IsRecordArray(out) ==
    out.json = "array" /\ \A i \in 1..Len(out.elems) : IsRecord(out.elems[i])

C2_NotFoundCount ==
    \A c \in Callers :
        /\ parsed[c].called
        /\ IsRecordArray(run[c].stdout)
        /\ \A i \in 1..Len(run[c].stdout.elems) :
               Qualifying(run[c].stdout.elems[i]) = << >>
        => /\ parsed[c].err.kind = NotFoundError
           /\ parsed[c].err.count = Len(run[c].stdout.elems)
           /\ parsed[c].content = << >>
           /\ api[c] = [content |-> << >>, err |-> parsed[c].err]

\* Two records, none qualifying, were scanned
C2_Witness ==
    \E c \in Callers :
        /\ parsed[c].called
        /\ run[c].stdout.json = "array"
        /\ Len(run[c].stdout.elems) = 2
        /\ parsed[c].err.kind = NotFoundError
        /\ parsed[c].err.count = 2

\* C3 (as claimed): output text that is no JSON, or no array of records,
\* fails with ParseError, and the operation returns that error and nothing
\* else.  An element null is counted as a record here
C3_ParseErrorForNonArray ==
    \A c \in Callers :
        parsed[c].called /\ ~IsRecordArray(run[c].stdout) =>
            /\ parsed[c].err.kind = ParseError
            /\ parsed[c].content = << >>
            /\ Returned(c) => ret[c] = Ret(<< >>, << >>, parsed[c].err)

\* ------------------------------------------------------------------------
\* The claims about what the operations return
\* ------------------------------------------------------------------------

\* C4: a generate operation returns either an artifact that passed its
\* validation (a non-empty subject, name or title) and no error, or an error
\* and empty strings
C4_ArtifactOrError ==
    \A c \in Callers :
        Returned(c) /\ op[c] \in Generates =>
            \/ ret[c].err = NoError /\ ret[c].value # << >>
            \/ ret[c].err # NoError /\ ret[c].value = << >> /\ ret[c].description = << >>

\* GeneratePRContent returned a title with an empty description
C4_Witness ==
    \E c \in Callers :
        /\ Returned(c)
        /\ op[c] = "GeneratePRContent"
        /\ ret[c].err = NoError
        /\ ret[c].value = AddCaching
        /\ ret[c].description = << >>

\* A branch name was returned without error
BranchReturned(c) ==
    Returned(c) /\ op[c] = "GenerateBranchName" /\ ret[c].err = NoError

SlugChars == Range(Lowers) \cup Range(Digits) \cup { "-" }

\* C5: a branch name returned without error is non-empty, at most 40
\* characters long and made of a-z, 0-9 and the hyphen
C5_BranchNameShape ==
    \A c \in Callers :
        BranchReturned(c) =>
            /\ ret[c].value # << >>
            /\ Len(ret[c].value) <= BranchNameMax
            /\ Range(ret[c].value) \subseteq SlugChars

\* A name was cut to 40 characters from content with characters to drop
C5_Witness ==
    \E c \in Callers :
        /\ BranchReturned(c)
        /\ Len(ret[c].value) = BranchNameMax
        /\ Len(api[c].content) > BranchNameMax + 1
        /\ "!" \in Range(api[c].content)

\* The reference pipeline of the branch-name sanitization, character by
\* character: lowercase, space and underscore to hyphen, delete what is
\* outside a-z0-9-
RefChar(ch) ==
    LET low == ToLowerChar(ch)
    IN  IF low \in { " ", "_" } THEN "-" ELSE low

RefSanitized(s) ==
    LET mapped == [i \in 1..Len(s) |-> RefChar(s[i])]
        kept(ch) == ch \in SlugChars
    IN  SelectSeq(mapped, kept)

\* ... trim the hyphens at both ends
RECURSIVE RefTrimLeft(_)
RefTrimLeft(s) == IF s # << >> /\ Head(s) = "-" THEN RefTrimLeft(Tail(s)) ELSE s

RECURSIVE RefTrimRight(_)
RefTrimRight(s) ==
    IF s # << >> /\ s[Len(s)] = "-" THEN RefTrimRight(SubSeq(s, 1, Len(s) - 1)) ELSE s

RefTrimmed(s) == RefTrimRight(RefTrimLeft(RefSanitized(s)))

\* ... keep the first 40 characters
RefName(s) ==
    LET t == RefTrimmed(s)
    IN  [i \in 1..minInt(Len(t), BranchNameMax) |-> t[i]]

\* C6 (as claimed): a branch name returned without error neither starts nor
\* ends with a hyphen
C6_NoHyphenAtEnds ==
    \A c \in Callers :
        BranchReturned(c) =>
            /\ ret[c].value[1] # "-"
            /\ ret[c].value[Len(ret[c].value)] # "-"

\* C6 (amended): a branch name returned without error does not start with a
\* hyphen, and ends with one only when it was cut: the trimmed sanitized form
\* is longer than 40 characters and its 40th character is a hyphen
C6_NoHyphenAtEndsUnlessCut ==
    \A c \in Callers :
        BranchReturned(c) =>
            /\ ret[c].value[1] # "-"
            /\ ret[c].value[Len(ret[c].value)] = "-" =>
                   /\ Len(RefTrimmed(api[c].content)) > BranchNameMax
                   /\ RefTrimmed(api[c].content)[BranchNameMax] = "-"

\* A name was returned from content that starts and ends with hyphens
C6_Witness ==
    \E c \in Callers :
        /\ BranchReturned(c)
        /\ Len(api[c].content) > BranchNameMax
        /\ api[c].content[1] = "-"
        /\ api[c].content[Len(api[c].content)] = "-"
        /\ ret[c].value = Repeat("a", BranchNameMax)

\* C7: when the trimmed sanitized name is longer than 40 characters and its
\* 40th character is a hyphen, the name returned is its first 40 characters,
\* hyphen included
C7_CutKeepsHyphen ==
    \A c \in Callers :
        /\ Returned(c)
        /\ op[c] = "GenerateBranchName"
        /\ api[c].err = NoError
        /\ Len(RefTrimmed(api[c].content)) > BranchNameMax
        /\ RefTrimmed(api[c].content)[BranchNameMax] = "-"
        => /\ ret[c].err = NoError
           /\ ret[c].value = SubSeq(RefTrimmed(api[c].content), 1, BranchNameMax)
           /\ ret[c].value[BranchNameMax] = "-"

\* A name that ends with the hyphen the cut left was returned
C7_Witness ==
    \E c \in Callers :
        /\ BranchReturned(c)
        /\ Len(RefTrimmed(api[c].content)) = BranchNameMax + 1
        /\ ret[c].value = Repeat("a", BranchNameMax - 1) \o << "-" >>

FixAuthSlug == << "f", "i", "x", "-", "a", "u", "t", "h", "-", "b", "u", "g" >>

\* C8: GenerateBranchName returns what the reference pipeline yields on the
\* content callAPI returned, and InvalidName when that is empty; the spec's
\* two examples yield fix-auth-bug
C8_ReferencePipeline ==
    \A c \in Callers :
        Returned(c) /\ op[c] = "GenerateBranchName" /\ api[c].err = NoError =>
            /\ IF RefName(api[c].content) = << >>
               THEN ret[c] = Ret(<< >>, << >>, Errorf(InvalidName, "nil", << >>, 0))
               ELSE ret[c] = Ret(RefName(api[c].content), << >>, NoError)
            /\ api[c].content \in { FixAuthBug, FixAuthText } => ret[c].value = FixAuthSlug

\* The assistant text fix_auth bug was returned as fix-auth-bug
C8_Witness ==
    \E c \in Callers :
        /\ BranchReturned(c)
        /\ run[c].stdout = AssistantOutput(FixAuthText)
        /\ ret[c].value = FixAuthSlug


\* ------------------------------------------------------------------------
\* The specification of the prompts: one caller calls one of the three
\* generate operations on templates and git contexts that hold tokens, and
\* on diffs around the two length limits
\* ------------------------------------------------------------------------

MaxOver == 1

\* The lengths of the long diffs: from one short of each limit to MaxOver
\* beyond it
DiffLens ==
    { n \in (BranchDiffMax - 1)..(CommitDiffMax + MaxOver) :
        \/ n <= BranchDiffMax + MaxOver
        \/ n >= CommitDiffMax - 1 }

\* Diffs: short ones, one that is a token, long runs of one character, and
\* long ones that start with a token or hold one across the cut
Diffs ==
    { << >>, << "d" >>, TokenLog, TokenBranch \o << "d" >> }
    \cup { Repeat("x", n) : n \in DiffLens }
    \cup { TokenLog \o Repeat("x", max) : max \in { BranchDiffMax, CommitDiffMax } }
    \cup { Repeat("x", max - 2) \o TokenBranch : max \in { BranchDiffMax, CommitDiffMax } }

\* Custom templates: none, one token, a token twice, the four tokens, an
\* unclosed token, no token
Templates ==
    { << >>,
      TokenDiff,
      << "a" >> \o TokenDiff \o << "b" >> \o TokenDiff,
      TokenLog \o TokenBranch \o TokenDiff \o TokenStatus,
      << "{", "d", "i", "f", "f" >>,
      << "t" >> }

Statuses == { << "M" >>, TokenDiff }

Branches == { << "b" >>, TokenLog }

Logs == { << >>, TokenStatus \o << "l" >> }

InitPrompt ==
    /\ InitCalls
    /\ InitSession
    /\ DebugMode = TRUE

CallPrompt(c) ==
    \/ \E status \in Statuses, d \in Diffs, branch \in Branches, log \in Logs,
          customPrompt \in Templates :
           GenerateCommitMessage(c, status, d, branch, log, customPrompt)
    \/ \E d \in Diffs, customPrompt \in Templates :
           GenerateBranchName(c, d, customPrompt)
    \/ \E d \in Diffs, customPrompt \in Templates :
           GeneratePRContent(c, d, customPrompt)

SubprocessPrompt(c) ==
    /\ pc[c] = "running"
    /\ \/ Exit(c, ResultOutput(<< "A" >>), << >>, "nil")
       \/ Exit(c, Stdout(<< >>, "invalid", << >>, << >>), << "e" >>, "exit status 1")

NextPrompt ==
    \/ CallPrompt("c1")
    \/ debugLog("c1", TRUE)
    \/ Run("c1")
    \/ SubprocessPrompt("c1")
    \/ Return("c1")

SpecPrompt == InitPrompt /\ [][NextPrompt]_vars

\* ------------------------------------------------------------------------
\* The claims about the prompts
\* ------------------------------------------------------------------------

\* The caller has built its prompt
Built(c) == pc[c] # "idle" /\ op[c] \in Generates

\* The template the operation starts from
TemplateOf(c) ==
    IF args[c].customPrompt # << >> THEN args[c].customPrompt
    ELSE CASE op[c] = "GenerateCommitMessage" -> DefaultCommitPrompt
           [] op[c] = "GenerateBranchName"    -> DefaultBranchNamePrompt
           [] OTHER                           -> DefaultPRPrompt

\* The limit of the operation's diff
LimitOf(c) ==
    CASE op[c] = "GenerateCommitMessage" -> CommitDiffMax
      [] op[c] = "GenerateBranchName"    -> BranchDiffMax
      [] OTHER                           -> PRDiffMax

\* The first characters of the diff argument, up to the limit
DiffBudget(c) ==
    [i \in 1..minInt(Len(args[c].diff), LimitOf(c)) |-> args[c].diff[i]]

\* How often token tok occurs in template t (a token does not overlap itself)
Count(t, tok) == Cardinality(Occurrences(t, tok, 1))

Braces(t) == Cardinality({ i \in 1..Len(t) : t[i] \in { "{", "}" } })

\* The template's only tokens, and only braces, are those of {diff}
DiffOnly(t) ==
    /\ Count(t, TokenStatus) = 0 /\ Count(t, TokenBranch) = 0 /\ Count(t, TokenLog) = 0
    /\ Braces(t) = 2 * Count(t, TokenDiff)

\* C9 (as claimed): in a prompt built from a template whose tokens are {diff}
\* only, each {diff} stands for the first limit characters of the diff (the
\* whole diff when it is no longer): the prompt is longer than the template by
\* that text's length less the token's, per token
C9_DiffCutInPrompt ==
    \A c \in Callers :
        Built(c) /\ DiffOnly(TemplateOf(c)) =>
            Len(prompt[c]) =
                Len(TemplateOf(c))
                  + Count(TemplateOf(c), TokenDiff) * (Len(DiffBudget(c)) - Len(TokenDiff))

\* The tokens the operation substitutes, with their values
Substitutions(c) ==
    IF op[c] = "GenerateCommitMessage"
    THEN { << TokenStatus, args[c].status >>, << TokenDiff, DiffBudget(c) >>,
           << TokenBranch, args[c].branch >>, << TokenLog, args[c].log >> }
    ELSE { << TokenDiff, DiffBudget(c) >> }

\* One pass over template t from position i: a token is replaced by its
\* value, and the value is not looked at again
RECURSIVE OnePass(_, _, _)
OnePass(t, i, subs) ==
    IF i > Len(t)
    THEN << >>
    ELSE LET here == { sub \in subs : ScanWord(t, i, sub[1]) }
         IN  IF here = {}
             THEN << t[i] >> \o OnePass(t, i + 1, subs)
             ELSE LET sub == CHOOSE x \in here : TRUE
                  IN  sub[2] \o OnePass(t, i + Len(sub[1]), subs)

\* C10 (as claimed): the substitution is not recursive: the prompt is the
\* template with each token replaced by its value, and a token inside a value
\* stays as it is
C10_NonRecursive ==
    \A c \in Callers :
        Built(c) => prompt[c] = OnePass(TemplateOf(c), 1, Substitutions(c))

\* The four tokens with the operation's context values, in the order of
\* GenerateCommitMessage's calls (the branch-name and the PR operation have no
\* status, branch or log: their values are empty)
FourTokens(c) ==
    << << TokenStatus, args[c].status >>, << TokenDiff, DiffBudget(c) >>,
       << TokenBranch, args[c].branch >>, << TokenLog, args[c].log >> >>

\* The orders in which four tokens can be substituted
Orders == { o \in [1..4 -> 1..4] : \A i, j \in 1..4 : o[i] = o[j] => i = j }

\* Template t after the substitutions subs[order[k]], subs[order[k + 1]], ...
\* each made on the result of the one before
RECURSIVE Chain(_, _, _, _)
Chain(t, subs, order, k) ==
    IF k > Len(order)
    THEN t
    ELSE Chain(ReplaceAll(t, subs[order[k]][1], subs[order[k]][2]), subs, order, k + 1)

\* C11 (as claimed): in the built prompt of each of the three operations
\* every occurrence of each of the four tokens in the template is replaced by
\* its context value, and substituting the four tokens in any other order
\* gives the same prompt
C11_AllTokensAnyOrder ==
    \A c \in Callers :
        Built(c) =>
            /\ prompt[c] = OnePass(TemplateOf(c), 1, Range(FourTokens(c)))
            /\ \A order \in Orders :
                   Chain(TemplateOf(c), FourTokens(c), order, 1) = prompt[c]


\* ------------------------------------------------------------------------
\* The specification of the clean-up of code blocks: one caller calls one of
\* the three generate operations, and the subprocess prints one result
\* record whose content is put together from fences, language tags, newlines,
\* blanks and letters
\* ------------------------------------------------------------------------

MaxPieces == 4

\* The pieces of a content string
Pieces == { Fence, << "j", "s", "o", "n" >>, << "\n" >>, << " " >>, << "X" >> }

\* The pieces ps[k], ps[k + 1], ... one behind the other
RECURSIVE Join(_, _)
Join(ps, k) == IF k > Len(ps) THEN << >> ELSE ps[k] \o Join(ps, k + 1)

\* {"a":1}
ObjectA1 == << "{", Quote, "a", Quote, ":", "1", "}" >>

FencedContents ==
    { Join(ps, 1) : ps \in SeqsUpTo(Pieces, MaxPieces) }
    \cup { FenceJSON \o << "\n" >> \o ObjectA1 \o << "\n" >> \o Fence }

InitDefence ==
    /\ InitCalls
    /\ InitSession
    /\ DebugMode = TRUE

SubprocessDefence(c) ==
    /\ pc[c] = "running"
    /\ \E content \in FencedContents : Exit(c, ResultOutput(content), << >>, "nil")

NextDefence ==
    \/ Call("c1")
    \/ debugLog("c1", TRUE)
    \/ Run("c1")
    \/ SubprocessDefence("c1")
    \/ Return("c1")

SpecDefence == InitDefence /\ [][NextDefence]_vars

\* ------------------------------------------------------------------------
\* The claims about the clean-up of code blocks
\* ------------------------------------------------------------------------

\* callAPI of caller c has cleaned the content parseClaudeOutput returned
Cleaned(c) ==
    /\ pc[c] \in { "response", "returned" }
    /\ parsed[c].called /\ parsed[c].err = NoError /\ parsed[c].content # << >>

StartsWithFence(s) == Len(s) >= 3 /\ \A i \in 1..3 : s[i] = Backquote

EndsWithFence(s) == Len(s) >= 3 /\ \A i \in (Len(s) - 2)..Len(s) : s[i] = Backquote

\* The transform as the two paths describe it
RefDefence(extracted) ==
    LET t        == TrimSpace(extracted)
        newlines == { i \in 1..Len(t) : t[i] = "\n" }
        opened   == IF newlines # {}
                    THEN [i \in 1..(Len(t) - SetMin(newlines)) |-> t[SetMin(newlines) + i]]
                    ELSE IF Len(t) >= 7 /\ [i \in 1..4 |-> t[3 + i]] = << "j", "s", "o", "n" >>
                    THEN [i \in 1..(Len(t) - 7) |-> t[7 + i]]
                    ELSE [i \in 1..(Len(t) - 3) |-> t[3 + i]]
        closed   == IF EndsWithFence(opened)
                    THEN [i \in 1..(Len(opened) - 3) |-> opened[i]]
                    ELSE opened
    IN  IF StartsWithFence(t) THEN TrimSpace(closed) ELSE t

\* C12 (as claimed): the cleaned content is the content on one of two paths:
\* with a newline, cut behind the first newline; without one, less a leading
\* fence with json if there is one, else less a leading fence; then less a
\* trailing fence, and trimmed.  Content that starts with no fence is trimmed
\* only
C12_TwoPaths ==
    \A c \in Callers :
        Cleaned(c) => api[c].content = RefDefence(parsed[c].content)

\* C13 (as claimed): the clean-up, made again on cleaned content, changes
\* nothing, and neither does trimming it again
C13_Idempotent ==
    \A c \in Callers :
        Cleaned(c) =>
            /\ Defence(api[c].content) = api[c].content
            /\ TrimSpace(TrimSpace(parsed[c].content)) = TrimSpace(parsed[c].content)

\* C13 (amended): the clean-up, made again on cleaned content that starts
\* with no fence, changes nothing, and neither does trimming trimmed content
C13_IdempotentOnClean ==
    \A c \in Callers :
        Cleaned(c) =>
            /\ ~StartsWithFence(api[c].content) =>
                   Defence(api[c].content) = api[c].content
            /\ TrimSpace(TrimSpace(parsed[c].content)) = TrimSpace(parsed[c].content)

\* A fenced content with blanks inside was cleaned to text that starts with
\* no fence
C13_Witness ==
    \E c \in Callers :
        /\ Cleaned(c)
        /\ StartsWithFence(TrimSpace(parsed[c].content))
        /\ Len(api[c].content) > 0
        /\ ~StartsWithFence(api[c].content)
        /\ Len(api[c].content) + 6 < Len(parsed[c].content)


\* ------------------------------------------------------------------------
\* The claims about what the operations make of the cleaned content
\* ------------------------------------------------------------------------

\* Caller c has returned from operation o, whose callAPI call gave content
Extracted(c, o) == Returned(c) /\ op[c] = o /\ api[c].err = NoError

\* s from its first to its last character that is no white space
Stripped(s) ==
    LET ink == { i \in 1..Len(s) : ~IsSpace(s[i]) }
    IN  IF ink = {} THEN << >>
        ELSE [i \in 1..(SetMax(ink) - SetMin(ink) + 1) |-> s[SetMin(ink) + i - 1]]

\* The text is a JSON object that sets string fields: it starts with a
\* brace and decodes
DecodesAsObject(s) ==
    /\ Stripped(s) # << >> /\ Stripped(s)[1] = "{"
    /\ ~UnmarshalPRContent(s).err

\* C14 (as claimed): GeneratePRContent fails with the parse error and
\* returns no title and no description when the cleaned content does not
\* decode as a JSON object, and fails with EmptyTitle when the decoded title
\* is empty after trimming, whatever the description
C14_PRFailures ==
    \A c \in Callers :
        Extracted(c, "GeneratePRContent") =>
            IF ~DecodesAsObject(api[c].content)
            THEN ret[c] = Ret(<< >>, << >>, Errorf(PRParseError, "json", << >>, 0))
            ELSE Stripped(UnmarshalPRContent(api[c].content).Title) = << >> =>
                     ret[c] = Ret(<< >>, << >>, Errorf(EmptyTitle, "nil", << >>, 0))

\* The JSON text of title t and description d, as it is or in a json fence
Wraps(content, t, d) ==
    \/ content = PRDoc(t, d)
    \/ content = FenceJSON \o << "\n" >> \o PRDoc(t, d) \o << "\n" >> \o Fence

\* No character of s needs an escape sequence in a JSON string
PlainText(s) == \A i \in 1..Len(s) : s[i] \notin { "\t", "\n", "\r", "\f", "\\", Quote }

\* C15: a successful GeneratePRContent returns the decoded title trimmed and
\* not empty and the decoded description trimmed; and for every JSON object
\* of a title that is not blank and a description, blank or not, fenced or
\* not, it succeeds with the two trimmed
C15_PRContent ==
    \A c \in Callers :
        Returned(c) /\ op[c] = "GeneratePRContent" =>
            /\ ret[c].err = NoError =>
                   /\ ret[c].value # << >>
                   /\ ret[c].value = Stripped(UnmarshalPRContent(api[c].content).Title)
                   /\ ret[c].description =
                          Stripped(UnmarshalPRContent(api[c].content).Description)
            /\ \A t \in PRTitles, d \in PRDescriptions :
                   /\ run[c].err = "nil" /\ parsed[c].called
                   /\ Wraps(parsed[c].content, t, d)
                   /\ PlainText(t) /\ PlainText(d) /\ Stripped(t) # << >>
                   => ret[c] = Ret(Stripped(t), Stripped(d), NoError)

\* The fenced object of the title "Add caching" and an empty description was
\* returned as that title and the empty description
C15_Witness ==
    \E c \in Callers :
        /\ Returned(c) /\ op[c] = "GeneratePRContent"
        /\ parsed[c].content =
               FenceJSON \o << "\n" >> \o PRDoc(AddCaching, << >>) \o << "\n" >> \o Fence
        /\ ret[c] = Ret(AddCaching, << >>, NoError)

Started(c) == pc[c] \in { "running", "response", "returned" }

\* C17: a call starts the subprocess once: no subprocess before cmd.Run,
\* one from then on, and one when the operation has returned, with an
\* artifact or with any error
C17_SpawnedOnce ==
    \A c \in Callers :
        /\ spawned[c] = IF Started(c) THEN 1 ELSE 0
        /\ Returned(c) /\ ret[c].err # NoError => spawned[c] = 1

\* A call returned a validation failure of a content the subprocess gave,
\* with one subprocess started
C17_Witness ==
    \E c \in Callers :
        /\ Returned(c) /\ op[c] \in Generates
        /\ ret[c].err.kind \in { EmptyResult, InvalidName, EmptyTitle }
        /\ spawned[c] = 1

\* The subprocess of caller c has ended with an error of cmd.Run
Failed(c) == pc[c] \in { "response", "returned" } /\ run[c].err # "nil"

\* C18: when cmd.Run returns an error, callAPI returns the process error
\* with that error and the text of stderr, does not call parseClaudeOutput,
\* and the operation returns that error and no artifact
C18_ProcessError ==
    \A c \in Callers :
        Failed(c) =>
            /\ api[c].err.kind = ProcessError
            /\ api[c].err.cause = run[c].err
            /\ api[c].err.text = run[c].stderr
            /\ api[c].content = << >>
            /\ ~parsed[c].called
            /\ Returned(c) =>
                   /\ ret[c].value = << >> /\ ret[c].description = << >>
                   /\ ret[c].err = api[c].err

\* A generate operation returned the process error of a subprocess that
\* failed with text on stderr and a qualifying record on stdout
C18_Witness ==
    \E c \in Callers :
        /\ Returned(c) /\ op[c] \in Generates
        /\ run[c].err # "nil"
        /\ run[c].stderr # << >>
        /\ run[c].stdout = ResultOutput(<< "A" >>)
        /\ ret[c].err.kind = ProcessError


\* ------------------------------------------------------------------------
\* The claims about the debug log
\* ------------------------------------------------------------------------

\* The first 500 characters of caller c's prompt
PromptHead(c) ==
    [i \in 1..(IF Len(prompt[c]) < 500 THEN Len(prompt[c]) ELSE 500) |-> prompt[c][i]]

\* The lines of the log that carry the prompt, stdout, stderr and the error
\* of caller c's call
PromptLine(c) == MsgS("Prompt: %s", PromptHead(c))

StdoutLine(c) == Line("STDOUT: %s", << >>, << >>, << >>, run[c].stdout, "nil")

StderrLine(c) == MsgS("STDERR: %s", run[c].stderr)

ErrorLine(c) == Line("ERROR: %v", << >>, << >>, << >>, NoOutput, run[c].err)

\* C20 (as claimed): with the flag set and the file writable, the log of a
\* call holds the first 500 characters of the prompt, behind them the whole
\* of stdout and behind that the whole of stderr, whether cmd.Run returned an
\* error or not
C20_PromptStdoutStderr ==
    \A c \in Callers :
        Returned(c) /\ DebugMode =>
            \E i, j, k \in 1..Len(logFile) :
                /\ i < j /\ j < k
                /\ logFile[i] = PromptLine(c)
                /\ logFile[j] = StdoutLine(c)
                /\ logFile[k] = StderrLine(c)

\* C20 (amended): with the flag set and the file writable, the log of a call
\* holds the first 500 characters of the prompt and behind them, when cmd.Run
\* returned no error, the whole of stdout and then the whole of stderr, and
\* when it returned an error, the error and then the whole of stderr and
\* nothing of stdout
C20_PromptThenOutputOrError ==
    \A c \in Callers :
        Returned(c) /\ DebugMode =>
            /\ Len(logFile) >= 4
            /\ logFile[2] = PromptLine(c)
            /\ IF run[c].err = "nil"
               THEN /\ Len(logFile) >= 5
                    /\ logFile[4] = StdoutLine(c)
                    /\ logFile[5] = StderrLine(c)
               ELSE /\ Len(logFile) = 4
                    /\ logFile[3] = ErrorLine(c)
                    /\ logFile[4] = StderrLine(c)
                    /\ \A i \in 1..4 : logFile[i].format # "STDOUT: %s"

\* A call with a prompt of more than 500 characters has returned after its
\* subprocess failed, and the log holds the prompt's first 500 characters
C20_Witness ==
    \E c \in Callers :
        /\ Returned(c) /\ DebugMode
        /\ Len(prompt[c]) > 500
        /\ run[c].err # "nil"
        /\ Len(logFile) = 4
        /\ Len(logFile[2].s) = 500


\* ------------------------------------------------------------------------
\* The specification of the debug log as a side channel: caller c1 makes a
\* call while the flag is set and cleared and the file opens or not, one
\* debugLog call at a time; then caller c2 makes the same call with the same
\* subprocess behaviour, with no file to write to
\* ------------------------------------------------------------------------

InitLog ==
    /\ InitCalls
    /\ InitSession
    /\ DebugMode \in BOOLEAN

CallLog(c) ==
    \/ GenerateCommitMessage(c, << "M" >>, << "d" >>, << "b" >>, << "l" >>, << >>)
    \/ GenerateBranchName(c, << "d" >>, << >>)

\* How the subprocess ends: a record with content, text that is no JSON, an
\* array without content, a non-zero exit status
SubprocessLog(c) ==
    /\ pc[c] = "running"
    /\ \/ \E out \in { ResultOutput(FixAuthBug), Stdout(<< >>, "invalid", << >>, << >>),
                       Stdout(<< >>, "array", << >>, << "\n" >>) } :
              Exit(c, out, << >>, "nil")
       \/ Exit(c, ResultOutput(FixAuthBug), << "e" >>, "exit status 1")

\* Caller c makes the call caller b has returned from
CallAgain(c, b) ==
    /\ Returned(b)
    /\ CallLog(c)
    /\ op'[c] = op[b]

\* Caller c's subprocess ends as caller b's did
SubprocessAgain(c, b) ==
    /\ pc[c] = "running"
    /\ Exit(c, run[b].stdout, run[b].stderr, run[b].err)

NextLog ==
    \/ CallLog("c1")
    \/ \E opens \in BOOLEAN : debugLog("c1", opens)
    \/ \E v \in BOOLEAN : SetDebugMode(v)
    \/ Run("c1")
    \/ SubprocessLog("c1")
    \/ Return("c1")
    \/ CallAgain("c2", "c1")
    \/ debugLog("c2", FALSE)
    \/ Run("c2")
    \/ SubprocessAgain("c2", "c1")
    \/ Return("c2")

SpecLog == InitLog /\ [][NextLog]_vars

\* C19: two calls of the same operation with the same arguments and the
\* same subprocess behaviour return the same, whatever the flag was and
\* whichever debugLog calls wrote their line
C19_LogHasNoEffect ==
    \A c, b \in Callers :
        /\ Returned(c) /\ Returned(b)
        /\ op[c] = op[b] /\ args[c] = args[b] /\ run[c] = run[b]
        => ret[c] = ret[b]

\* Two calls of one operation with one subprocess behaviour have returned,
\* and of the first call's lines some are in the log and some are not
C19_Witness ==
    /\ Returned("c1") /\ Returned("c2")
    /\ op["c1"] = op["c2"] /\ run["c1"] = run["c2"]
    /\ ret["c1"].err = NoError
    /\ Len(logFile) > 0
    /\ Len(logFile) < 5


\* ------------------------------------------------------------------------
\* The specification of the flag: one caller makes a call with a file that
\* opens at every debugLog call, while other code of the program sets and
\* clears DebugMode at any step
\* ------------------------------------------------------------------------

InitFlag ==
    /\ InitCalls
    /\ InitSession
    /\ DebugMode \in BOOLEAN

NextFlag ==
    \/ CallLog("c1")
    \/ debugLog("c1", TRUE)
    \/ \E v \in BOOLEAN : SetDebugMode(v)
    \/ Run("c1")
    \/ SubprocessLog("c1")
    \/ Return("c1")

SpecFlag == InitFlag /\ [][NextFlag]_vars

\* The debugLog calls of caller c's call, in program order
CallLines(c) == callAPIRequest(prompt[c]) \o callAPIResponse(run[c]).lines

\* C21 (as claimed): the flag counts as it was when the call began: when the
\* call has returned, the log holds all of its lines or none of them
C21_AllOrNothing ==
    \A c \in Callers :
        Returned(c) => logFile = << >> \/ logFile = CallLines(c)


\* ------------------------------------------------------------------------
\* The specification of concurrent callers: c1 calls GenerateBranchName and
\* c2 calls TestConnection at the same time, each with its own subprocess,
\* and their debugLog calls interleave in any way.  The flag is set and the
\* file opens; one debugLog call is one write to a file opened with O_APPEND
\* ------------------------------------------------------------------------

InitConcurrent ==
    /\ InitCalls
    /\ InitSession
    /\ DebugMode = TRUE

\* How a subprocess ends: c1's with a record with content or with text that
\* is no JSON, c2's with an array without content or a non-zero exit status
SubprocessConcurrent(c) ==
    /\ pc[c] = "running"
    /\ IF c = "c1"
       THEN \/ Exit(c, ResultOutput(<< "A" >>), << >>, "nil")
            \/ Exit(c, Stdout(<< >>, "invalid", << >>, << >>), << "w" >>, "nil")
       ELSE \/ Exit(c, Stdout(<< >>, "array", << >>, << "\n" >>), << >>, "nil")
            \/ Exit(c, ResultOutput(<< "A" >>), << "e" >>, "exit status 1")

NextConcurrent ==
    \/ GenerateBranchName("c1", << "d" >>, << >>)
    \/ TestConnection("c2")
    \/ \E c \in Callers :
           \/ debugLog(c, TRUE)
           \/ Run(c)
           \/ SubprocessConcurrent(c)
           \/ Return(c)

SpecConcurrent == InitConcurrent /\ [][NextConcurrent]_vars

\* The debugLog calls caller c has made so far, in program order
Written(c) ==
    LET request == callAPIRequest(prompt[c])
        lines   == CASE pc[c] = "idle" -> << >>
                     [] pc[c] \in { "request", "running" } -> request
                     [] OTHER -> request \o callAPIResponse(run[c]).lines
    IN  [i \in 1..(Len(lines) - Len(pend[c])) |-> lines[i]]

\* Log l is lines a and lines b, each in its order, interleaved in some way
RECURSIVE IsShuffle(_, _, _)
IsShuffle(l, a, b) ==
    IF l = << >>
    THEN a = << >> /\ b = << >>
    ELSE \/ a # << >> /\ Head(l) = Head(a) /\ IsShuffle(Tail(l), Tail(a), b)
         \/ b # << >> /\ Head(l) = Head(b) /\ IsShuffle(Tail(l), a, Tail(b))

\* The log after a step is the log before it, or that with one line more
Grows ==
    /\ Len(logFile') \in { Len(logFile), Len(logFile) + 1 }
    /\ \A i \in 1..Len(logFile) : logFile'[i] = logFile[i]

\* C22: with two callers at once the log only grows, by whole lines, and it
\* holds the lines of each caller in that caller's program order, the lines
\* of the two interleaved in any way
C22_AppendOnlyInOrder ==
    /\ [](IsShuffle(logFile, Written("c1"), Written("c2")))
    /\ [][Grows]_vars

\* The two callers have returned, and the log holds lines of c2 between
\* lines of c1
C22_Witness ==
    /\ Returned("c1") /\ Returned("c2")
    /\ Len(logFile) = Len(Written("c1")) + Len(Written("c2"))
    /\ logFile # Written("c1") \o Written("c2")
    /\ logFile # Written("c2") \o Written("c1")


\* ------------------------------------------------------------------------
\* The specification with fairness: the caller's own steps (its debugLog
\* calls, the start of the subprocess, its return) are taken when they can
\* be; nothing makes the subprocess end
\* ------------------------------------------------------------------------

InitLive ==
    /\ InitCalls
    /\ InitSession
    /\ DebugMode = TRUE

\* How the subprocess ends, when it ends: a record with content, with or
\* without a fence, text that is no JSON, an array without content, a
\* non-zero exit status, a failed start
SubprocessLive(c) ==
    /\ pc[c] = "running"
    /\ \/ \E out \in { ResultOutput(<< "A" >>), ResultOutput(Fence \o << "\n", "B" >>),
                       AssistantOutput(<< " " >>),
                       Stdout(<< >>, "invalid", << >>, << >>),
                       Stdout(<< >>, "array", << >>, << "\n" >>) } :
              Exit(c, out, << >>, "nil")
       \/ \E err \in RunErrors : Exit(c, ResultOutput(<< "A" >>), << "e" >>, err)

NextLive ==
    \/ Call("c1")
    \/ debugLog("c1", TRUE)
    \/ Run("c1")
    \/ SubprocessLive("c1")
    \/ Return("c1")

SpecLive ==
    /\ InitLive
    /\ [][NextLive]_vars
    /\ WF_vars(debugLog("c1", TRUE))
    /\ WF_vars(Run("c1"))
    /\ WF_vars(Return("c1"))

\* A step leaves cmd.Run only by the subprocess's end, and a call returns
\* only from behind cmd.Run
Waits ==
    \A c \in Callers :
        /\ pc[c] = "running" => pc'[c] \in { "running", "response" }
        /\ pc'[c] = "response" /\ pc[c] # "response" => pc[c] = "running"
        /\ pc'[c] = "returned" /\ pc[c] # "returned" => pc[c] = "response"

\* C23: a call does not return while its subprocess runs: it stays in
\* cmd.Run until the subprocess has ended, with no step out of it for a
\* timeout or a cancellation, and once the subprocess has ended the call
\* returns in the end
C23_Blocking ==
    /\ [][Waits]_vars
    /\ \A c \in { "c1" } : pc[c] = "response" ~> Returned(c)

\* A generate call has returned after its subprocess ended with exit status 0
C23_Witness ==
    \E c \in Callers :
        /\ Returned(c) /\ op[c] \in Generates
        /\ spawned[c] = 1
        /\ run[c].err = "nil"
        /\ run[c].stdout # NoOutput

\* A call whose subprocess runs returns in the end: this does not hold, as
\* the subprocess need not end
RunningLeadsToReturned == \A c \in { "c1" } : pc[c] = "running" ~> Returned(c)


\* ------------------------------------------------------------------------
\* The claim about the choice of the template
\* ------------------------------------------------------------------------

\* Caller c has built its prompt and entered callAPI with it (the prompt
\* stays as it is from here on)
Entered(c) == Built(c) /\ pc[c] = "request" /\ pend[c] = callAPIRequest(prompt[c])

\* The built-in template of caller c's operation
DefaultOf(c) ==
    CASE op[c] = "GenerateCommitMessage" -> DefaultCommitPrompt
      [] op[c] = "GenerateBranchName"    -> DefaultBranchNamePrompt
      [] OTHER                           -> DefaultPRPrompt

\* Template t after the operation's substitutions, in the operation's order
Substituted(c, t) ==
    IF op[c] = "GenerateCommitMessage"
    THEN Chain(t, FourTokens(c), << 1, 2, 3, 4 >>, 1)
    ELSE ReplaceAll(t, TokenDiff, DiffBudget(c))

\* C24: the prompt of each of the three operations is built from the
\* operation's built-in template when the custom template is empty and from
\* the custom template when it is not; the choice looks at the custom
\* template as given, not at what the substitutions make of it
C24_TemplateChoice ==
    \A c \in Callers :
        Entered(c) =>
            IF args[c].customPrompt = << >>
            THEN prompt[c] = Substituted(c, DefaultOf(c))
            ELSE prompt[c] = Substituted(c, args[c].customPrompt)

\* A custom template that is the token {diff} was used with an empty diff:
\* the prompt is empty and not the built-in template's
C24_Witness ==
    \E c \in Callers :
        /\ Entered(c)
        /\ args[c].customPrompt = TokenDiff
        /\ args[c].diff = << >>
        /\ prompt[c] = << >>
        /\ Substituted(c, DefaultOf(c)) # << >>


\* ------------------------------------------------------------------------
\* The packages session and config
\* ------------------------------------------------------------------------

sessionPrefix == << "j", "e", "a", "n", "-" >>

\* A character the first regular expression leaves: [a-zA-Z0-9\-_]
ValidRune(ch) ==
    ch \in Range(Lowers) \/ ch \in Range(Uppers) \/ ch \in Range(Digits) \/ ch \in { "-", "_" }

\* reg.ReplaceAllString(s, "-") for the expression -+ from position i on: a
\* run of hyphens becomes one hyphen
RECURSIVE ReplaceHyphenRuns(_, _)
ReplaceHyphenRuns(s, i) ==
    IF i > Len(s)
    THEN << >>
    ELSE IF s[i] # "-"
    THEN << s[i] >> \o ReplaceHyphenRuns(s, i + 1)
    ELSE LET stop == { j \in i..Len(s) : s[j] # "-" }
         IN  << "-" >> \o ReplaceHyphenRuns(s, IF stop = {} THEN Len(s) + 1 ELSE SetMin(stop))

\* Mutant of SanitizeBranchName: runs of hyphens are left as they are
SanitizeBranchNameKeepRuns(branch) ==
    Trim([i \in 1..Len(branch) |-> IF ValidRune(branch[i]) THEN branch[i] ELSE "-"],
         << "-" >>)

\* Manager.SanitizeBranchName
SanitizeBranchName(branch) ==
    LET replaced  == [i \in 1..Len(branch) |->
                         IF ValidRune(branch[i]) THEN branch[i] ELSE "-"]
        collapsed == ReplaceHyphenRuns(replaced, 1)
    IN  Trim(collapsed, << "-" >>)

\* Manager.SanitizeName
SanitizeName(repoName, branch) ==
    LET sanitizedRepo   == SanitizeBranchName(repoName)
        sanitizedBranch == SanitizeBranchName(branch)
    IN  IF sanitizedRepo # << >>
        THEN sessionPrefix \o sanitizedRepo \o << "-" >> \o sanitizedBranch
        ELSE sessionPrefix \o sanitizedBranch

\* The sequences of the elements of set S, each once
Orderings(S) ==
    { o \in [1..Cardinality(S) -> S] : \A i, j \in 1..Cardinality(S) : o[i] = o[j] => i = j }

\* ScriptConfig.GetScriptNames: the returns it can make.  The receiver is
\* "nil", a config with a nil map ("nil map"), or a config with a map, of
\* which Scripts holds the keys; the order of range over a map is not
\* specified
GetScriptNames(s) ==
    IF s.receiver = "nil" \/ s.receiver = "nil map"
    THEN { << >> }
    ELSE Orderings(s.Scripts)

\* The calls: the functions keep no state, and a behaviour makes one call
CallSanitizeBranchName(branch) ==
    /\ called = "none"
    /\ called' = "SanitizeBranchName"
    /\ argv' = [NoArgv EXCEPT !.receiver = "Manager", !.branch = branch]
    /\ result' = SanitizeBranchName(branch)
    /\ UNCHANGED client

CallSanitizeName(repoName, branch) ==
    /\ called = "none"
    /\ called' = "SanitizeName"
    /\ argv' = [NoArgv EXCEPT !.receiver = "Manager", !.repoName = repoName,
                              !.branch = branch]
    /\ result' = SanitizeName(repoName, branch)
    /\ UNCHANGED client

CallGetScriptNames(s) ==
    /\ called = "none"
    /\ called' = "GetScriptNames"
    /\ argv' = s
    /\ \E names \in GetScriptNames(s) : result' = names
    /\ UNCHANGED client

\* ------------------------------------------------------------------------
\* The specification of the two packages: the three functions are called on
\* names of up to MaxName characters (MaxPart for each of SanitizeName's
\* two) and on configs of up to MaxScripts scripts
\* ------------------------------------------------------------------------

MaxName == 4

MaxPart == 2

MaxScripts == 3

NameAlphabet == { "a", "Z", "7", "-", "_", "/" }

ScriptNames ==
    { << "a" >>, << "b" >>, << "a", "b" >>, << "b", "a" >>, << "a", "a" >>, << "c" >> }

ScriptConfigs ==
    { [NoArgv EXCEPT !.receiver = "nil"], [NoArgv EXCEPT !.receiver = "nil map"] }
    \cup { [NoArgv EXCEPT !.receiver = "ScriptConfig", !.Scripts = S] :
             S \in { T \in SUBSET ScriptNames : Cardinality(T) <= MaxScripts } }

InitPackages ==
    /\ InitCalls
    /\ InitSession
    /\ DebugMode = TRUE

NextPackages ==
    \/ \E branch \in SeqsUpTo(NameAlphabet, MaxName) : CallSanitizeBranchName(branch)
    \/ \E repoName, branch \in SeqsUpTo(NameAlphabet, MaxPart) :
           CallSanitizeName(repoName, branch)
    \/ \E s \in ScriptConfigs : CallGetScriptNames(s)

SpecPackages == InitPackages /\ [][NextPackages]_vars


\* ------------------------------------------------------------------------
\* The claims about the packages session and config
\* ------------------------------------------------------------------------

\* The place of a letter in the alphabet
Rank(ch) == CHOOSE i \in 1..Len(Lowers) : Lowers[i] = ch

\* Name a comes before name b (names of small letters, compared as Go
\* compares strings)
Before(a, b) ==
    \E k \in 1..(Len(a) + 1) :
        /\ k <= Len(b)
        /\ \A i \in 1..(k - 1) : a[i] = b[i]
        /\ k = Len(a) + 1 \/ Rank(a[k]) < Rank(b[k])

\* C25 (as claimed): GetScriptNames returns the keys of the Scripts map,
\* each once, in ascending order, and the empty list for a nil receiver or a
\* nil map
C25_SortedNames ==
    called = "GetScriptNames" =>
        IF argv.receiver \in { "nil", "nil map" }
        THEN result = << >>
        ELSE /\ Len(result) = Cardinality(argv.Scripts)
             /\ Range(result) = argv.Scripts
             /\ \A i, j \in 1..Len(result) : i < j => Before(result[i], result[j])

\* C25 without the order: the keys, each once, and the empty list for nil
ScriptNamesEachOnce ==
    called = "GetScriptNames" =>
        IF argv.receiver \in { "nil", "nil map" }
        THEN result = << >>
        ELSE /\ Len(result) = Cardinality(argv.Scripts)
             /\ Range(result) = argv.Scripts

\* s holds characters of [a-zA-Z0-9_-] only, no two hyphens in a row, and no
\* hyphen at either end
CleanName(s) ==
    /\ \A i \in 1..Len(s) :
           s[i] \in Range(Lowers) \cup Range(Uppers) \cup Range(Digits) \cup { "-", "_" }
    /\ \A i \in 1..(Len(s) - 1) : ~(s[i] = "-" /\ s[i + 1] = "-")
    /\ s # << >> => s[1] # "-" /\ s[Len(s)] # "-"

\* C27: SanitizeBranchName returns a clean name, which it returns as it is
\* when called on it; SanitizeName returns "jean-", the sanitized repo and a
\* hyphen when the sanitized repo is not empty, and the sanitized branch
C27_SanitizedNames ==
    /\ called = "SanitizeBranchName" =>
           /\ CleanName(result)
           /\ SanitizeBranchName(result) = result
    /\ called = "SanitizeName" =>
           /\ Len(result) >= 5 /\ [i \in 1..5 |-> result[i]] = << "j", "e", "a", "n", "-" >>
           /\ LET repo   == SanitizeBranchName(argv.repoName)
                  branch == SanitizeBranchName(argv.branch)
              IN  /\ CleanName(repo) /\ CleanName(branch)
                  /\ result = IF repo # << >>
                              THEN << "j", "e", "a", "n", "-" >> \o repo \o << "-" >> \o branch
                              ELSE << "j", "e", "a", "n", "-" >> \o branch

\* SanitizeBranchName was called on a name with a run of characters that are
\* not valid between letters, and returned it with one hyphen there
C27_Witness ==
    /\ called = "SanitizeBranchName"
    /\ argv.branch = << "a", "/", "-", "Z" >>
    /\ result = << "a", "-", "Z" >>

\* C26: whenever callAPI returns without error the content it returns is
\* not empty, and TestConnection returns no error only then
C26_NonEmptyContent ==
    \A c \in Callers :
        /\ pc[c] \in { "response", "returned" } /\ api[c].err = NoError =>
               api[c].content # << >>
        /\ Returned(c) /\ op[c] = "TestConnection" /\ ret[c].err = NoError =>
               api[c].content # << >>

====
